---- MODULE Spec2Model ----
(***************************************************************************)
(* Damage constitutive laws of src/src/local_damage.h: the exponential     *)
(* damage law, the modified-Mises strain norm, the local and the gradient  *)
(* enhanced material law with their per-point history kappa, the QValues   *)
(* per-point storage and the IpLoop batch driver.                          *)
(*                                                                         *)
(* Numbers.  The code computes in IEEE doubles.  A double is modelled as a *)
(* fixed-point number: the integer x stands for x / Scale, every product   *)
(* and quotient is rounded to the nearest representable value.  Like a     *)
(* double, the model has a finite resolution: 1 - x is 1 when x is below   *)
(* half a quantum.                                                         *)
(***************************************************************************)
EXTENDS Integers, Sequences, FiniteSets, TLC

VARIABLES
    c,        \* Constraint the laws were constructed with (_c, shape of _C)
    lkappa,   \* LocalDamage::_kappa, an Eigen::VectorXd
    gkappa,   \* GradientDamage::_kappa, a QValues
    outputs,  \* IpLoop::_outputs, Q::LAST QValues
    n,        \* IpLoop::_n
    ret,      \* value returned by the last call that returns one
    emax,     \* history variable: per point, max(0, nonlocal values committed since the last resize)
    call,     \* the last operation called and its arguments
    built,    \* what the client built and calls: a LocalDamage, a GradientDamage, or an IpLoop over a GradientDamage
    store,    \* a QValues container used directly by a client
    aborted,  \* an assert of the container failed: the process is gone
    pass      \* a batch pass in progress, its points taken in any order

vars == <<c, lkappa, gkappa, outputs, n, ret, emax, call, built, store, aborted, pass>>

-----------------------------------------------------------------------------
(* Bounds of the model *)

\* resolution of the fixed-point model of double: x stands for x / Scale
Scale == 100
\* largest point count passed to a resize
MaxN == 2
\* largest rows / cols of a directly used QValues container
MaxDim == 2

-----------------------------------------------------------------------------
(* Fixed-point arithmetic standing for double arithmetic *)

\* a / b rounded to the nearest integer (b > 0)
RDiv(a, b) == (2 * a + b) \div (2 * b)

\* double product x * y
Mul(x, y) == RDiv(x * y, Scale)

\* double quotient x / y (y # 0)
Div(x, y) == IF y > 0 THEN RDiv(x * Scale, y) ELSE RDiv((0 - x) * Scale, 0 - y)

One == Scale

Max(a, b) == IF a >= b THEN a ELSE b

RECURSIVE SqrtSearch(_, _, _)
\* largest r in lo..hi with r * r <= m
SqrtSearch(lo, hi, m) ==
    IF lo >= hi THEN lo
    ELSE LET mid == (lo + hi + 1) \div 2
         IN  IF mid * mid <= m THEN SqrtSearch(mid, hi, m) ELSE SqrtSearch(lo, mid - 1, m)

\* std::sqrt(x), x >= 0
Sqrt(x) == SqrtSearch(0, x * Scale + 1, x * Scale)

\* 1 / e
EInv == RDiv(Scale * 36788, 100000)

RECURSIVE Exp(_)
\* std::exp(x) for x <= 0: underflow to 0 far below, else range reduction by
\* whole units, then the series
Exp(x) ==
    IF x <= 0 - 16 * Scale THEN 0
    ELSE IF x <= 0 - Scale THEN Mul(Exp(x + Scale), EInv)
    ELSE LET x2 == Mul(x, x)
             x3 == Mul(x2, x)
             x4 == Mul(x3, x)
         IN  Max(0, One + x + RDiv(x2, 2) + RDiv(x3, 6) + RDiv(x4, 24))

-----------------------------------------------------------------------------
(* Construction parameters (E, nu, ft, alpha, gf / beta, k) of the laws *)

\* Young's modulus 2
E == 2 * Scale
\* Poisson ratio 0.2
Nu == Scale \div 5
\* tensile strength 1
Ft == Scale
\* residual stiffness fraction 0.99
Alpha == RDiv(99 * Scale, 100)
\* fracture energy 2 (local law: softening rate ft / gf)
Gf == 2 * Scale
\* softening rate 1 (gradient law)
Beta == Scale
\* compression / tension ratio k
KRatio == 10 * Scale

-----------------------------------------------------------------------------
(* DamageLawExponential *)

\* the law's members _k0, _a, _b
DamageLaw(k0, alpha, beta) == [k0 |-> k0, a |-> alpha, b |-> beta]

\* std::pair<double, double> evaluate(double k) const
DamageLawExponential_evaluate(law, k) ==
    IF k <= law.k0 THEN [omega |-> 0, domega |-> 0]
    ELSE LET ex == Exp(Mul(law.b, law.k0 - k))
         IN  [omega  |-> One - Mul(Div(law.k0, k), One - law.a + Mul(law.a, ex)),
              domega |-> Mul(Div(law.k0, k),
                             Mul(Mul(Div(One, k) + law.b, law.a), ex) + Div(One - law.a, k))]

-----------------------------------------------------------------------------
(* Vectors (sequences) and matrices (sequences of rows) *)

RECURSIVE SumTo(_, _)
\* f[1] + ... + f[m]
SumTo(f, m) == IF m = 0 THEN 0 ELSE SumTo(f, m - 1) + f[m]

Rows(m) == Len(m)

\* Eigen product matrix * vector
MatVec(m, v) == [r \in 1..Len(m) |-> SumTo([j \in 1..Len(v) |-> Mul(m[r][j], v[j])], Len(v))]

\* Eigen product matrix.transpose() * vector, the matrix with cols columns
MatTVec(m, v, cols) == [j \in 1..cols |-> SumTo([r \in 1..Len(m) |-> Mul(m[r][j], v[r])], Len(m))]

\* scalar * matrix
ScaleMat(s, m) == [r \in 1..Len(m) |-> [j \in 1..Len(m[r]) |-> Mul(s, m[r][j])]]

\* vector * scalar
ScaleVec(v, s) == [r \in 1..Len(v) |-> Mul(v[r], s)]

NegVec(v) == [r \in 1..Len(v) |-> 0 - v[r]]

NegMat(m) == [r \in 1..Len(m) |-> NegVec(m[r])]

\* column vector * row vector
Outer(u, v) == [r \in 1..Len(u) |-> [j \in 1..Len(v) |-> Mul(u[r], v[j])]]

MatSub(a, b) == [r \in 1..Len(a) |-> [j \in 1..Len(a[r]) |-> a[r][j] - b[r][j]]]

\* a vector as the one-column matrix Eigen converts it to
ColMat(v) == [r \in 1..Len(v) |-> <<v[r]>>]

\* a double as a 1 x 1 matrix
ScalarMat(x) == <<(<<x>>)>>

\* value.data(): the coefficients of a rows x cols matrix, column after column
ColMajor(m, rows, cols) ==
    [p \in 1..(rows * cols) |-> m[((p - 1) % rows) + 1][((p - 1) \div rows) + 1]]

-----------------------------------------------------------------------------
(* interfaces.h, which the file includes: Constraint, Dim::Q and C *)

Constraints == {"UNIAXIAL_STRAIN", "UNIAXIAL_STRESS", "PLANE_STRAIN", "PLANE_STRESS", "FULL"}

\* reduced strain dimension of a constraint
DimQ(cc) ==
    CASE cc \in {"UNIAXIAL_STRAIN", "UNIAXIAL_STRESS"} -> 1
      [] cc \in {"PLANE_STRAIN", "PLANE_STRESS"} -> 3
      [] OTHER -> 6

\* elastic stiffness of shape q x q, symmetric positive definite
C(e, nu, cc) ==
    [r \in 1..DimQ(cc) |-> [j \in 1..DimQ(cc) |-> IF r = j THEN e ELSE Mul(nu, RDiv(e, 4))]]

-----------------------------------------------------------------------------
(* Invariants and the modified-Mises strain norm *)

\* std::pair<double, V<FULL>> InvariantI1(V<FULL> v)
InvariantI1(v) == [I1 |-> v[1] + v[2] + v[3], dI1 |-> <<One, One, One, 0, 0, 0>>]

\* std::pair<double, V<FULL>> InvariantJ2(V<FULL> v)
InvariantJ2(v) ==
    [J2  |-> RDiv(Mul(v[1] - v[2], v[1] - v[2]) + Mul(v[2] - v[3], v[2] - v[3])
                    + Mul(v[3] - v[1], v[3] - v[1]), 6)
             + RDiv(Mul(v[4], v[4]) + Mul(v[5], v[5]) + Mul(v[6], v[6]), 4),
     dJ2 |-> <<RDiv(2 * v[1] - v[2] - v[3], 3),
               RDiv(2 * v[2] - v[3] - v[1], 3),
               RDiv(2 * v[3] - v[1] - v[2], 3),
               RDiv(v[4], 2), RDiv(v[5], 2), RDiv(v[6], 2)>>]

\* Eigen::Matrix<double, 6, Eigen::Dynamic> T3D(double nu, Constraint c); T(r, j) is T3D[r + 1][j + 1]
T3D(nu, cc) ==
    [r \in 1..6 |-> [j \in 1..DimQ(cc) |->
        CASE cc = "UNIAXIAL_STRAIN" -> IF r = 1 /\ j = 1 THEN One ELSE 0
          [] cc = "UNIAXIAL_STRESS" -> IF r = 1 THEN One ELSE IF r \in {2, 3} THEN 0 - nu ELSE 0
          [] cc = "PLANE_STRAIN" ->
                IF (r = 1 /\ j = 1) \/ (r = 2 /\ j = 2) \/ (r = 6 /\ j = 3) THEN One ELSE 0
          [] cc = "PLANE_STRESS" ->
                IF (r = 1 /\ j = 1) \/ (r = 2 /\ j = 2) \/ (r = 6 /\ j = 3) THEN One
                ELSE IF r = 3 /\ j \in {1, 2} THEN Div(nu, nu - One)
                ELSE 0
          [] OTHER -> IF r = j THEN One ELSE 0]]

\* 1.e-14, the smallest positive number the model can represent
Regularizer == 1

\* ModMisesEeq::ModMisesEeq(double k, double nu, Constraint c)
ModMisesEeq(k, nu, cc) ==
    [K1  |-> Div(k - One, Mul(Mul(2 * One, k), One - Mul(2 * One, nu))),
     K2  |-> Div(3 * One, Mul(Mul(k, One + nu), One + nu)),
     nu  |-> nu,
     c   |-> cc,
     T3D |-> T3D(nu, cc)]

\* std::pair<double, Eigen::VectorXd> ModMisesEeq::evaluate(Eigen::VectorXd strain) const
ModMisesEeq_evaluate(norm, strain) ==
    LET strain3D == MatVec(norm.T3D, strain)
        i1 == InvariantI1(strain3D)
        j2 == InvariantJ2(strain3D)
        A  == Sqrt(Mul(Mul(Mul(norm.K1, norm.K1), i1.I1), i1.I1) + Mul(norm.K2, j2.J2)) + Regularizer
        eeq == Mul(norm.K1, i1.I1) + A
        deeq_dI1 == norm.K1 + Div(Mul(Mul(norm.K1, norm.K1), i1.I1), A)
        deeq_dJ2 == Div(norm.K2, 2 * A)
        deeq == [r \in 1..6 |-> Mul(deeq_dI1, i1.dI1[r]) + Mul(deeq_dJ2, j2.dJ2[r])]
    IN  [eeq |-> eeq, deeq |-> MatTVec(norm.T3D, deeq, Len(strain))]

-----------------------------------------------------------------------------
(* QValues: n x rows x cols values in one flat vector *)

\* QValues(int rows, int cols = 1); data is empty until Resize
QValues(rows, cols) == [rows |-> rows, cols |-> cols, data |-> <<>>]

\* QValues() = default, as std::vector::resize value-initializes it: _rows = _cols = 0
QValuesDefault == [rows |-> 0, cols |-> 0, data |-> <<>>]

\* what is left of a container whose assert failed (the process aborts)
QAbort == [rows |-> 0 - 1, cols |-> 0 - 1, data |-> <<>>]

\* void Resize(int n): data.setZero(n * _rows * _cols)
QValues_Resize(q, nn) == [q EXCEPT !.data = [p \in 1..(nn * q.rows * q.cols) |-> 0]]

\* slip: the two shape asserts left out
QValues_Set_double_unchecked(q, value, i) ==
    IF i + 1 \in DOMAIN q.data THEN [q EXCEPT !.data[i + 1] = value] ELSE QAbort

\* void Set(double value, int i): the two asserts, and Eigen's own on the index
QValues_Set_double(q, value, i) ==
    IF q.rows = 1 /\ q.cols = 1 /\ i + 1 \in DOMAIN q.data
    THEN [q EXCEPT !.data[i + 1] = value]
    ELSE QAbort

\* void Set(Eigen::MatrixXd value, int i), value given row by row: the two
\* asserts, and Eigen's own on the segment
QValues_Set(q, value, i) ==
    IF Len(value) = q.rows /\ Len(value[1]) = q.cols /\ q.rows * q.cols * (i + 1) <= Len(q.data)
    THEN LET size == q.rows * q.cols
             flat == ColMajor(value, q.rows, q.cols)
         IN  [q EXCEPT !.data = [p \in 1..Len(q.data) |->
                 IF p > size * i /\ p <= size * i + size THEN flat[p - size * i] ELSE q.data[p]]]
    ELSE QAbort

\* double GetScalar(int i): the value, or a failed assert
QValues_GetScalar(q, i) ==
    IF q.rows = 1 /\ q.cols = 1 /\ i + 1 \in DOMAIN q.data
    THEN [ok |-> TRUE, value |-> q.data[i + 1]]
    ELSE [ok |-> FALSE, value |-> 0]

\* Eigen::MatrixXd Get(int i): block i as a _rows x _cols matrix
QValues_Get(q, i) ==
    [r \in 1..q.rows |-> [j \in 1..q.cols |-> q.data[q.rows * q.cols * i + (j - 1) * q.rows + r]]]

\* enum Q
SIGMA == 1
DSIGMA_DEPS == 2
EEQ == 3
DEEQ == 4
DSIGMA_DE == 5
LAST == 6

-----------------------------------------------------------------------------
(* LocalDamage *)

\* values an uninitialized double of a freshly allocated Eigen vector may hold
Garbage == {0, 0 - One, 200 * One}

\* _C, _omega(ft / E, alpha, ft / gf), _eeq(k, nu, c)
LocalDamage(cc) ==
    [C |-> C(E, Nu, cc), omega |-> DamageLaw(Div(Ft, E), Alpha, Div(Ft, Gf)),
     eeq |-> ModMisesEeq(KRatio, Nu, cc)]

\* void LocalDamage::resize(int n): Eigen resize keeps a vector of the same size
\* and otherwise allocates n uninitialized coefficients (junk: what they hold)
LocalDamage_resize(kappa, nn, junk) == IF nn = Len(kappa) THEN kappa ELSE junk

\* slip: equality counted as unloading
LocalDamage_evaluate_kappa_strict(eeq, kappa) ==
    IF eeq > kappa THEN [kappa |-> eeq, dkappa |-> One] ELSE [kappa |-> kappa, dkappa |-> 0]

\* std::pair<double, double> LocalDamage::evaluate_kappa(double eeq, double kappa) const
LocalDamage_evaluate_kappa(eeq, kappa) ==
    IF eeq >= kappa THEN [kappa |-> eeq, dkappa |-> One] ELSE [kappa |-> kappa, dkappa |-> 0]

\* LocalDamage::evaluate(strain, i): the returned pair and _kappa afterwards
LocalDamage_evaluate(l, kappa, strain, i) ==
    LET e  == ModMisesEeq_evaluate(l.eeq, strain)
        k  == LocalDamage_evaluate_kappa(e.eeq, kappa[i + 1])
        w  == DamageLawExponential_evaluate(l.omega, k.kappa)
    IN  [kappa   |-> kappa,
         stress  |-> MatVec(ScaleMat(One - w.omega, l.C), strain),
         tangent |-> MatSub(ScaleMat(One - w.omega, l.C),
                            Outer(ScaleVec(ScaleVec(MatVec(l.C, strain), w.domega), k.dkappa),
                                  e.deeq))]

\* void LocalDamage::update(strain, i): _kappa afterwards
LocalDamage_update(l, kappa, strain, i) ==
    LET eeq == ModMisesEeq_evaluate(l.eeq, strain).eeq
    IN  [kappa EXCEPT ![i + 1] = LocalDamage_evaluate_kappa(eeq, kappa[i + 1]).kappa]

-----------------------------------------------------------------------------
(* GradientDamage *)

\* _C, _omega(ft / E, alpha, beta), _strain_norm(k, nu, c); _kappa(1) is the state
GradientDamage(cc) ==
    [C |-> C(E, Nu, cc), omega |-> DamageLaw(Div(Ft, E), Alpha, Beta),
     strain_norm |-> ModMisesEeq(KRatio, Nu, cc)]

\* void AllocateOutputs(std::vector<QValues>& out) const
GradientDamage_AllocateOutputs(g, out) ==
    LET q == Len(g.C)
    IN  [out EXCEPT ![EEQ] = QValues(1, 1), ![DEEQ] = QValues(q, 1), ![SIGMA] = QValues(q, 1),
                    ![DSIGMA_DE] = QValues(q, 1), ![DSIGMA_DEPS] = QValues(q, q)]

\* void GradientDamage::resize(int n)
GradientDamage_resize(kappa, nn) == QValues_Resize(kappa, nn)

\* slip: the history follows the driving value also when it drops
GradientDamage_evaluate_kappa_follow(eeq, kappa) == [kappa |-> eeq, dkappa |-> One]

\* std::pair<double, double> GradientDamage::evaluate_kappa(double eeq, double kappa) const
GradientDamage_evaluate_kappa(eeq, kappa) ==
    IF eeq >= kappa THEN [kappa |-> eeq, dkappa |-> One] ELSE [kappa |-> kappa, dkappa |-> 0]

\* slip: evaluate also commits the trial kappa
GradientDamage_evaluate_commit(g, kappa, out, strain, e, i) ==
    [kappa |-> QValues_Set_double(kappa,
                   GradientDamage_evaluate_kappa(e, QValues_GetScalar(kappa, i).value).kappa, i),
     out |-> out]

\* slip: the damage is driven by the local equivalent strain, as in LocalDamage
GradientDamage_evaluate_local(g, kappa, out, strain, e, i) ==
    LET s  == ModMisesEeq_evaluate(g.strain_norm, strain)
        k  == GradientDamage_evaluate_kappa(s.eeq, QValues_GetScalar(kappa, i).value)
        w  == DamageLawExponential_evaluate(g.omega, k.kappa)
        o1 == [out EXCEPT ![EEQ] = QValues_Set_double(@, s.eeq, i)]
        o2 == [o1 EXCEPT ![SIGMA] = QValues_Set(@, ColMat(MatVec(ScaleMat(One - w.omega, g.C), strain)), i)]
        o3 == [o2 EXCEPT ![DEEQ] = QValues_Set(@, ColMat(s.deeq), i)]
        o4 == [o3 EXCEPT ![DSIGMA_DE] =
                 QValues_Set(@, ColMat(ScaleVec(ScaleVec(MatVec(NegMat(g.C), strain), w.domega), k.dkappa)), i)]
        o5 == [o4 EXCEPT ![DSIGMA_DEPS] = QValues_Set(@, ScaleMat(One - w.omega, g.C), i)]
    IN  [kappa |-> kappa, out |-> o5]

\* void GradientDamage::evaluate(strain, e, out, i): _kappa and out afterwards
GradientDamage_evaluate(g, kappa, out, strain, e, i) ==
    LET k  == GradientDamage_evaluate_kappa(e, QValues_GetScalar(kappa, i).value)
        w  == DamageLawExponential_evaluate(g.omega, k.kappa)
        s  == ModMisesEeq_evaluate(g.strain_norm, strain)
        o1 == [out EXCEPT ![EEQ] = QValues_Set_double(@, s.eeq, i)]
        o2 == [o1 EXCEPT ![SIGMA] = QValues_Set(@, ColMat(MatVec(ScaleMat(One - w.omega, g.C), strain)), i)]
        o3 == [o2 EXCEPT ![DEEQ] = QValues_Set(@, ColMat(s.deeq), i)]
        o4 == [o3 EXCEPT ![DSIGMA_DE] =
                 QValues_Set(@, ColMat(ScaleVec(ScaleVec(MatVec(NegMat(g.C), strain), w.domega), k.dkappa)), i)]
        o5 == [o4 EXCEPT ![DSIGMA_DEPS] = QValues_Set(@, ScaleMat(One - w.omega, g.C), i)]
    IN  [kappa |-> IF QValues_GetScalar(kappa, i).ok THEN kappa ELSE QAbort, out |-> o5]

\* slip: a loading step adds the driving value to the history
GradientDamage_update_add(kappa, strain, neeq, i) ==
    LET old == QValues_GetScalar(kappa, i).value
    IN  QValues_Set_double(kappa, IF neeq >= old THEN old + neeq ELSE old, i)

\* slip: the point index dropped, every point written to slot 0
GradientDamage_update_slot0(kappa, strain, neeq, i) ==
    QValues_Set_double(kappa, GradientDamage_evaluate_kappa(neeq, QValues_GetScalar(kappa, 0).value).kappa, 0)

\* void GradientDamage::update(strain, neeq, i): _kappa afterwards
GradientDamage_update(kappa, strain, neeq, i) ==
    QValues_Set_double(kappa,
                       GradientDamage_evaluate_kappa(neeq, QValues_GetScalar(kappa, i).value).kappa, i)

-----------------------------------------------------------------------------
(* IpLoop *)

\* IpLoop::IpLoop(GradientDamage& law): _outputs after the constructor
IpLoop(g) == GradientDamage_AllocateOutputs(g, [w \in 0..(LAST - 1) |-> QValuesDefault])

\* slip: the resize is not passed on to the law
IpLoop_resize_nolaw(kappa, out, nn) ==
    [n |-> nn, out |-> [w \in DOMAIN out |-> QValues_Resize(out[w], nn)], kappa |-> kappa]

\* void IpLoop::resize(int n): _n, _outputs and the law's _kappa afterwards
IpLoop_resize(kappa, out, nn) ==
    [n |-> nn,
     out |-> [w \in DOMAIN out |-> QValues_Resize(out[w], nn)],
     kappa |-> GradientDamage_resize(kappa, nn)]

\* all_strains.segment(i * q, q)
Segment(v, start, len) == [j \in 1..len |-> v[start + j]]

RECURSIVE EvaluateFrom(_, _, _, _, _, _)
\* the loop of IpLoop::evaluate from point i on, st = [kappa, out]
EvaluateFrom(g, st, all_strains, all_neeq, i, nn) ==
    IF i >= nn THEN st
    ELSE LET q == Len(g.C)
         IN  EvaluateFrom(g, GradientDamage_evaluate(g, st.kappa, st.out,
                                 Segment(all_strains, i * q, q), all_neeq[i + 1], i),
                          all_strains, all_neeq, i + 1, nn)

\* void IpLoop::evaluate(all_strains, all_neeq): the law's _kappa and _outputs afterwards
IpLoop_evaluate(g, kappa, out, nn, all_strains, all_neeq) ==
    EvaluateFrom(g, [kappa |-> kappa, out |-> out], all_strains, all_neeq, 0, nn)

RECURSIVE UpdateFrom(_, _, _, _, _, _)
\* the loop of IpLoop::update from point i on
UpdateFrom(g, kappa, all_strains, all_neeq, i, nn) ==
    IF i >= nn THEN kappa
    ELSE LET q == Len(g.C)
         IN  UpdateFrom(g, GradientDamage_update(kappa, Segment(all_strains, i * q, q), all_neeq[i + 1], i),
                        all_strains, all_neeq, i + 1, nn)

\* void IpLoop::update(all_strains, all_neeq): the law's _kappa afterwards
IpLoop_update(g, kappa, nn, all_strains, all_neeq) == UpdateFrom(g, kappa, all_strains, all_neeq, 0, nn)

-----------------------------------------------------------------------------
(* Inputs of the calls *)

\* a few strain vectors of dimension q: elastic, damaging, compressive
StrainList(q) ==
    LET a == <<(3 * Scale) \div 10, Scale, 0 - Scale>>
        b == <<0 - (Scale \div 10), 0, Scale \div 2>>
    IN  [s \in 1..3 |-> [j \in 1..q |-> IF j % 2 = 1 THEN a[s] ELSE b[s]]]

Strains(q) == {StrainList(q)[s] : s \in 1..3}

\* nonlocal equivalent strains: negative, below the threshold k0, above it
NeeqList == <<0 - (Scale \div 2), (3 * Scale) \div 10, Scale>>

Neeqs == {NeeqList[s] : s \in 1..3}

\* concatenated strains of nn points, neighbouring points different
AllStrains(nn, q) ==
    {[p \in 1..(nn * q) |-> StrainList(q)[(((p - 1) \div q + s) % 3) + 1][((p - 1) % q) + 1]] : s \in 0..2}

\* nonlocal values of nn points, neighbouring points different
AllNeeq(nn) == {[i \in 1..nn |-> NeeqList[((i - 1 + s) % 3) + 1]] : s \in 0..2}

Points(len) == 0..(len - 1)

None == [none |-> TRUE]

\* an assert failed in one of the containers
Failed(kappa, out) == kappa = QAbort \/ \E w \in DOMAIN out : out[w] = QAbort

-----------------------------------------------------------------------------
(* The client: it builds one law, or an IpLoop over a gradient law, and calls it *)

Init ==
    /\ c \in Constraints
    /\ built \in {"LocalDamage", "GradientDamage", "IpLoop"}
    /\ lkappa = <<>>
    /\ gkappa = QValues(1, 1)
    /\ outputs = IpLoop(GradientDamage(c))
    /\ n = 0
    /\ ret = None
    /\ emax = <<>>
    /\ call = [op |-> "new"]
    /\ store = QValuesDefault
    /\ aborted = FALSE
    /\ pass = [kind |-> "idle"]

LocalResize(nn) ==
    /\ built = "LocalDamage" /\ ~aborted
    /\ \E junk \in [1..nn -> Garbage] : lkappa' = LocalDamage_resize(lkappa, nn, junk)
    /\ call' = [op |-> "LocalDamage::resize", n |-> nn]
    /\ ret' = None
    /\ UNCHANGED <<c, built, gkappa, outputs, n, emax, store, aborted, pass>>

LocalEvaluate(strain, i) ==
    /\ built = "LocalDamage" /\ ~aborted
    /\ i \in Points(Len(lkappa))
    /\ \E r \in {LocalDamage_evaluate(LocalDamage(c), lkappa, strain, i)} :
           /\ lkappa' = r.kappa
           /\ ret' = [stress |-> r.stress, tangent |-> r.tangent]
    /\ call' = [op |-> "LocalDamage::evaluate", strain |-> strain, i |-> i]
    /\ UNCHANGED <<c, built, gkappa, outputs, n, emax, store, aborted, pass>>

LocalUpdate(strain, i) ==
    /\ built = "LocalDamage" /\ ~aborted
    /\ i \in Points(Len(lkappa))
    /\ lkappa' = LocalDamage_update(LocalDamage(c), lkappa, strain, i)
    /\ call' = [op |-> "LocalDamage::update", strain |-> strain, i |-> i]
    /\ ret' = None
    /\ UNCHANGED <<c, built, gkappa, outputs, n, emax, store, aborted, pass>>

\* GradientDamage::resize called on the law itself
GradResize(nn) ==
    /\ built = "GradientDamage" /\ ~aborted
    /\ gkappa' = GradientDamage_resize(gkappa, nn)
    /\ emax' = [i \in 1..nn |-> 0]
    /\ call' = [op |-> "GradientDamage::resize", n |-> nn]
    /\ ret' = None
    /\ UNCHANGED <<c, built, lkappa, outputs, n, store, aborted, pass>>

\* GradientDamage::update called on the law itself
GradUpdate(strain, neeq, i) ==
    /\ built = "GradientDamage" /\ ~aborted
    /\ i \in Points(Len(gkappa.data))
    /\ \E k \in {GradientDamage_update(gkappa, strain, neeq, i)} :
           IF Failed(k, outputs)
           THEN aborted' = TRUE /\ UNCHANGED <<gkappa, emax>>
           ELSE /\ aborted' = FALSE /\ gkappa' = k
                /\ emax' = [emax EXCEPT ![i + 1] = Max(@, neeq)]
    /\ call' = [op |-> "GradientDamage::update", neeq |-> neeq, i |-> i]
    /\ ret' = None
    /\ UNCHANGED <<c, built, lkappa, outputs, n, store, pass>>

LoopResize(nn) ==
    /\ built = "IpLoop" /\ ~aborted
    /\ \E r \in {IpLoop_resize(gkappa, outputs, nn)} :
           n' = r.n /\ outputs' = r.out /\ gkappa' = r.kappa
    /\ emax' = [i \in 1..nn |-> 0]
    /\ call' = [op |-> "IpLoop::resize", n |-> nn]
    /\ ret' = None
    /\ UNCHANGED <<c, built, lkappa, store, aborted, pass>>

LoopEvaluate(all_strains, all_neeq) ==
    /\ built = "IpLoop" /\ ~aborted
    /\ \E r \in {IpLoop_evaluate(GradientDamage(c), gkappa, outputs, n, all_strains, all_neeq)} :
           IF Failed(r.kappa, r.out)
           THEN aborted' = TRUE /\ UNCHANGED <<gkappa, outputs>>
           ELSE aborted' = FALSE /\ gkappa' = r.kappa /\ outputs' = r.out
    /\ call' = [op |-> "IpLoop::evaluate", all_strains |-> all_strains, all_neeq |-> all_neeq]
    /\ ret' = None
    /\ UNCHANGED <<c, built, lkappa, n, emax, store, pass>>

LoopUpdate(all_strains, all_neeq) ==
    /\ built = "IpLoop" /\ ~aborted
    /\ \E k \in {IpLoop_update(GradientDamage(c), gkappa, n, all_strains, all_neeq)} :
           IF Failed(k, outputs)
           THEN aborted' = TRUE /\ UNCHANGED <<gkappa, emax>>
           ELSE /\ aborted' = FALSE /\ gkappa' = k
                /\ emax' = [i \in 1..Len(emax) |-> IF i <= n THEN Max(emax[i], all_neeq[i]) ELSE emax[i]]
    /\ call' = [op |-> "IpLoop::update", all_neeq |-> all_neeq]
    /\ ret' = None
    /\ UNCHANGED <<c, built, lkappa, outputs, n, store, pass>>

Next ==
    \/ \E nn \in 0..MaxN : LocalResize(nn)
    \/ \E strain \in Strains(DimQ(c)), i \in Points(MaxN) : LocalEvaluate(strain, i)
    \/ \E strain \in Strains(DimQ(c)), i \in Points(MaxN) : LocalUpdate(strain, i)
    \/ \E nn \in 0..MaxN : GradResize(nn)
    \/ \E strain \in Strains(DimQ(c)), e \in Neeqs, i \in Points(MaxN) : GradUpdate(strain, e, i)
    \/ \E nn \in 0..MaxN : LoopResize(nn)
    \/ \E all_strains \in AllStrains(n, DimQ(c)), all_neeq \in AllNeeq(n) : LoopEvaluate(all_strains, all_neeq)
    \/ \E all_strains \in AllStrains(n, DimQ(c)), all_neeq \in AllNeeq(n) : LoopUpdate(all_strains, all_neeq)

Spec == Init /\ [][Next]_vars

-----------------------------------------------------------------------------
(* Properties of the laws and the driver, under Spec *)

ResizeOps == {"LocalDamage::resize", "GradientDamage::resize", "IpLoop::resize"}

\* all coefficients of a sequence are zero
AllZero(v) == \A p \in DOMAIN v : v[p] = 0

\* block i of output container w
Block(w, i) == QValues_Get(outputs[w], i)

\* C1: across evaluate and update calls of either law (no resize), no stored
\* kappa[i] ever decreases, whatever the driving values are
C1_KappaNeverDecreases ==
    [][call'.op \notin ResizeOps =>
          /\ Len(lkappa') = Len(lkappa)
          /\ \A p \in DOMAIN lkappa : lkappa'[p] >= lkappa[p]
          /\ Len(gkappa'.data) = Len(gkappa.data)
          /\ \A p \in DOMAIN gkappa.data : gkappa'.data[p] >= gkappa.data[p]]_vars

\* C1 witness: an update with a negative driving value on a point whose
\* history is positive has been made, and the history is still positive
C1_Witness ==
    /\ call.op = "GradientDamage::update"
    /\ call.neeq < 0
    /\ gkappa.data[call.i + 1] > 0

\* C2: LocalDamage::evaluate and IpLoop::evaluate (GradientDamage::evaluate at
\* every point) leave the stored kappa of every point unchanged
C2_EvaluateIsTrialOnly ==
    [][call'.op \in {"LocalDamage::evaluate", "IpLoop::evaluate"} =>
          lkappa' = lkappa /\ gkappa' = gkappa]_vars

\* C2 witness: an evaluate pass whose nonlocal value at some point exceeds the
\* stored kappa has run: the trial kappa was larger and was not committed
C2_Witness ==
    /\ call.op = "IpLoop::evaluate"
    /\ \E i \in Points(n) : call.all_neeq[i + 1] > gkappa.data[i + 1] /\ Block(SIGMA, i)[1][1] # 0

\* C3: after resize(n) of either law the history has length n and is all zero
C3_ResizeZeroes ==
    call.op \in ResizeOps =>
        /\ built = "LocalDamage" => Len(lkappa) = call.n /\ AllZero(lkappa)
        /\ built # "LocalDamage" => Len(gkappa.data) = call.n /\ AllZero(gkappa.data)

\* C8: in the gradient law kappa[i] is max(0, nonlocal values committed since
\* the resize), whatever the strains; an update repeated with the same inputs
\* changes nothing
C8_GradientHistoryIsMax ==
    [][/\ Len(gkappa'.data) = Len(emax')
       /\ \A p \in DOMAIN gkappa'.data : gkappa'.data[p] = emax'[p] /\ gkappa'.data[p] >= 0
       /\ call'.op = "GradientDamage::update" =>
            \A strain \in Strains(DimQ(c)) :
               /\ GradientDamage_update(gkappa, strain, call'.neeq, call'.i) = gkappa'
               /\ GradientDamage_update(gkappa', strain, call'.neeq, call'.i) = gkappa']_vars

\* C8 witness: after an update pass some point holds an earlier, larger nonlocal
\* value than the positive one just committed
C8_Witness ==
    /\ call.op = "IpLoop::update"
    /\ \E i \in Points(n) : call.all_neeq[i + 1] > 0 /\ gkappa.data[i + 1] > call.all_neeq[i + 1]

\* C9: after GradientDamage::evaluate at point i, DSIGMA_DE is zero when the
\* nonlocal value is below the stored kappa or max(e, kappa) <= k0; in the
\* elastic case SIGMA = C * strain and DSIGMA_DEPS = C; DSIGMA_DEPS is always
\* (1 - omega) * C with omega taken at max(e, kappa)
C9_GradientTangents ==
    call.op = "IpLoop::evaluate" =>
        \A i \in Points(n) :
            LET g      == GradientDamage(c)
                q      == Len(g.C)
                e      == call.all_neeq[i + 1]
                k      == gkappa.data[i + 1]
                strain == Segment(call.all_strains, i * q, q)
                w      == DamageLawExponential_evaluate(g.omega, Max(e, k))
            IN  /\ (e < k \/ Max(e, k) <= g.omega.k0) =>
                       \A r \in 1..q : Block(DSIGMA_DE, i)[r][1] = 0
                /\ Max(e, k) <= g.omega.k0 =>
                       /\ Block(SIGMA, i) = ColMat(MatVec(g.C, strain))
                       /\ Block(DSIGMA_DEPS, i) = g.C
                /\ Block(DSIGMA_DEPS, i) = ScaleMat(One - w.omega, g.C)

\* C9 witness: an evaluate pass with a point unloading from a damaged state
\* (e below kappa, kappa above k0) and a loading, damaging point with a
\* nonzero DSIGMA_DE
C9_Witness ==
    /\ call.op = "IpLoop::evaluate"
    /\ \E i \in Points(n) :
          /\ call.all_neeq[i + 1] < gkappa.data[i + 1]
          /\ gkappa.data[i + 1] > GradientDamage(c).omega.k0
          /\ Block(SIGMA, i)[1][1] # 0
    /\ \E i \in Points(n) : Block(DSIGMA_DE, i)[1][1] # 0

\* C10: for a law used through one IpLoop only, the history length is _n, all
\* Q::LAST containers have a defined shape and length _n * rows * cols, and no
\* assert fails; with _n = 0 every container is empty
C10_DriverSizes ==
    built = "IpLoop" =>
        /\ ~aborted
        /\ gkappa.rows = 1 /\ gkappa.cols = 1 /\ Len(gkappa.data) = n
        /\ DOMAIN outputs = 0..(LAST - 1)
        /\ \A w \in DOMAIN outputs :
              /\ outputs[w].rows >= 0 /\ outputs[w].cols >= 0
              /\ Len(outputs[w].data) = n * outputs[w].rows * outputs[w].cols
        /\ outputs[DSIGMA_DEPS].rows = DimQ(c) /\ outputs[DSIGMA_DEPS].cols = DimQ(c)

\* C10 witness: an evaluate pass over the largest point count with a matrix
\* valued output of several rows and columns
C10_Witness ==
    /\ built = "IpLoop" /\ n = MaxN /\ DimQ(c) > 1
    /\ call.op = "IpLoop::evaluate"
    /\ Len(outputs[DSIGMA_DEPS].data) = n * DimQ(c) * DimQ(c)
    /\ outputs[DSIGMA_DEPS].data[Len(outputs[DSIGMA_DEPS].data)] # 0

-----------------------------------------------------------------------------
(* The pure functions, applied to inputs drawn from bounded sets *)

\* stored kappa and driving values: negative, zero, around each other, large
FnVals == {0 - One, 0 - 1, 0, 1, Scale \div 2, Scale \div 2 + 1, One, 200 * One}

\* history values around the threshold k0 and far above it
KVals == {0 - One, 0, Div(Ft, E) - 1, Div(Ft, E), Div(Ft, E) + 1, One, 2 * One, 5 * One,
          20 * One, 200 * One}

\* the damage laws the two material laws construct
DamageLaws == {LocalDamage("FULL").omega, GradientDamage("FULL").omega}

InitFn ==
    /\ c = "FULL"
    /\ built = "LocalDamage"
    /\ lkappa = <<>>
    /\ gkappa = QValues(1, 1)
    /\ outputs = IpLoop(GradientDamage(c))
    /\ n = 0
    /\ ret = None
    /\ emax = <<>>
    /\ call \in [op : {"LocalDamage::evaluate_kappa", "GradientDamage::evaluate_kappa"},
                 eeq : FnVals, kappa : FnVals]
            \cup [op : {"DamageLawExponential::evaluate"}, law : DamageLaws, k : KVals]
            \cup {[op |-> "ModMisesEeq::evaluate", c |-> cc, strain |-> strain] :
                      cc \in Constraints, strain \in UNION {Strains(q) : q \in {1, 3, 6}}}
    /\ store = QValuesDefault
    /\ aborted = FALSE
    /\ pass = [kind |-> "idle"]

FnFrame == UNCHANGED <<c, built, lkappa, gkappa, outputs, n, emax, call, store, aborted, pass>>

ApplyLocalEvaluateKappa ==
    /\ ret = None /\ call.op = "LocalDamage::evaluate_kappa"
    /\ ret' = LocalDamage_evaluate_kappa(call.eeq, call.kappa)
    /\ FnFrame

ApplyGradientEvaluateKappa ==
    /\ ret = None /\ call.op = "GradientDamage::evaluate_kappa"
    /\ ret' = GradientDamage_evaluate_kappa(call.eeq, call.kappa)
    /\ FnFrame

ApplyDamageLaw ==
    /\ ret = None /\ call.op = "DamageLawExponential::evaluate"
    /\ ret' = DamageLawExponential_evaluate(call.law, call.k)
    /\ FnFrame

ApplyStrainNorm ==
    /\ ret = None /\ call.op = "ModMisesEeq::evaluate"
    /\ Len(call.strain) = DimQ(call.c)
    /\ ret' = ModMisesEeq_evaluate(ModMisesEeq(KRatio, Nu, call.c), call.strain)
    /\ FnFrame

NextFn ==
    \/ ApplyLocalEvaluateKappa
    \/ ApplyGradientEvaluateKappa
    \/ ApplyDamageLaw
    \/ ApplyStrainNorm

SpecFn == InitFn /\ [][NextFn]_vars

\* C4: evaluate_kappa of both laws returns (eeq, 1) when eeq >= storedKappa and
\* (storedKappa, 0) when eeq < storedKappa: the kappa returned is the maximum
\* and the derivative is 0 or 1
C4_LoadingFunction ==
    (call.op \in {"LocalDamage::evaluate_kappa", "GradientDamage::evaluate_kappa"} /\ ret # None) =>
        /\ call.eeq >= call.kappa => ret = [kappa |-> call.eeq, dkappa |-> One]
        /\ call.eeq < call.kappa => ret = [kappa |-> call.kappa, dkappa |-> 0]
        /\ ret.kappa = Max(call.eeq, call.kappa)
        /\ ret.dkappa \in {0, One}

\* C4 witness: the local law's function applied where eeq equals a positive
\* stored kappa, counted as loading
C4_Witness ==
    /\ call.op = "LocalDamage::evaluate_kappa" /\ ret # None
    /\ call.eeq = call.kappa /\ call.kappa > 0
    /\ ret.dkappa = One

\* C5: DamageLawExponential::evaluate(kappa) returns 0 <= omega < 1 for every
\* kappa, and (0, 0) for every kappa <= k0
C5_OmegaInRange ==
    (call.op = "DamageLawExponential::evaluate" /\ ret # None) =>
        /\ 0 <= ret.omega /\ ret.omega < One
        /\ call.k <= call.law.k0 => ret = [omega |-> 0, domega |-> 0]

-----------------------------------------------------------------------------
(* One QValues container used directly by a client *)

Shapes == 1..MaxDim

\* a rows x cols matrix whose coefficients differ from each other and from 0
ValueMatrix(rows, cols) == [r \in 1..rows |-> [j \in 1..cols |-> 10 * r + j]]

ScalarValues == {Scale \div 4, 3 * Scale}

InitQ ==
    /\ c = "FULL"
    /\ built = "QValues"
    /\ lkappa = <<>>
    /\ gkappa = QValues(1, 1)
    /\ outputs = IpLoop(GradientDamage(c))
    /\ n = 0
    /\ ret = None
    /\ emax = <<>>
    /\ call = [op |-> "new"]
    /\ store \in {QValuesDefault} \cup {QValues(rows, cols) : rows \in Shapes, cols \in Shapes}
    /\ aborted = FALSE
    /\ pass = [kind |-> "idle"]

QFrame == UNCHANGED <<c, built, lkappa, gkappa, outputs, n, emax, pass>>

QResize(nn) ==
    /\ ~aborted
    /\ store' = QValues_Resize(store, nn)
    /\ call' = [op |-> "QValues::Resize", i |-> nn]
    /\ ret' = None
    /\ UNCHANGED aborted
    /\ QFrame

QSetDouble(value, i) ==
    /\ ~aborted
    /\ \E r \in {QValues_Set_double(store, value, i)} :
        /\ aborted' = (r = QAbort)
        /\ store' = IF r = QAbort THEN store ELSE r
    /\ call' = [op |-> "QValues::Set(double)", i |-> i, value |-> value]
    /\ ret' = None
    /\ QFrame

QSetMatrix(rows, cols, i) ==
    /\ ~aborted
    /\ \E r \in {QValues_Set(store, ValueMatrix(rows, cols), i)} :
        /\ aborted' = (r = QAbort)
        /\ store' = IF r = QAbort THEN store ELSE r
    /\ call' = [op |-> "QValues::Set(MatrixXd)", i |-> i, rows |-> rows, cols |-> cols]
    /\ ret' = None
    /\ QFrame

QGetScalar(i) ==
    /\ ~aborted
    /\ \E r \in {QValues_GetScalar(store, i)} :
        /\ aborted' = ~r.ok
        /\ ret' = IF r.ok THEN [value |-> r.value] ELSE None
    /\ call' = [op |-> "QValues::GetScalar", i |-> i]
    /\ UNCHANGED store
    /\ QFrame

\* Get has no assert of its own; Eigen's segment() asserts the range
QGet(i) ==
    /\ ~aborted
    /\ IF store.rows * store.cols * (i + 1) <= Len(store.data)
       THEN aborted' = FALSE /\ ret' = [block |-> QValues_Get(store, i)]
       ELSE aborted' = TRUE /\ ret' = None
    /\ call' = [op |-> "QValues::Get", i |-> i]
    /\ UNCHANGED store
    /\ QFrame

NextQ ==
    \/ \E nn \in 0..MaxN : QResize(nn)
    \/ \E value \in ScalarValues, i \in Points(MaxN) : QSetDouble(value, i)
    \/ \E rows \in Shapes, cols \in Shapes, i \in Points(MaxN) : QSetMatrix(rows, cols, i)
    \/ \E i \in Points(MaxN) : QGetScalar(i)
    \/ \E i \in Points(MaxN) : QGet(i)

SpecQ == InitQ /\ [][NextQ]_vars

\* C7: QValues rejects shape mismatches: a Set whose value's rows/cols differ
\* from the container's shape (a scalar Set on a non-1x1 container included)
\* fails instead of writing, GetScalar on a non-1x1 container fails instead of
\* returning data, and a failed call leaves the stored data unchanged
C7_ShapeMismatchRejected ==
    [][/\ ( \/ /\ call'.op \in {"QValues::Set(double)", "QValues::GetScalar"}
               /\ ~(store.rows = 1 /\ store.cols = 1)
            \/ /\ call'.op = "QValues::Set(MatrixXd)"
               /\ (call'.rows # store.rows \/ call'.cols # store.cols) )
          => (aborted' /\ store' = store /\ ret' = None)
       /\ aborted' => store' = store
       /\ (call'.op = "QValues::Set(MatrixXd)" /\ ~aborted') =>
              QValues_Get(store', call'.i) = ValueMatrix(store.rows, store.cols)
       /\ (call'.op = "QValues::Set(double)" /\ ~aborted') =>
              store'.data[call'.i + 1] = call'.value
      ]_vars

\* C7 witness: a matrix of the transposed shape, with as many coefficients as a
\* block, was set on a container that holds written data, and the call failed
C7_Witness ==
    /\ aborted
    /\ call.op = "QValues::Set(MatrixXd)"
    /\ call.rows = store.cols /\ call.cols = store.rows /\ call.rows # call.cols
    /\ store.rows * store.cols * (call.i + 1) <= Len(store.data)
    /\ \E p \in DOMAIN store.data : store.data[p] # 0

-----------------------------------------------------------------------------
(* The batch passes of IpLoop, one point at a time in any order *)

\* one constraint of each strain dimension
PassConstraints == {"UNIAXIAL_STRESS", "PLANE_STRAIN", "FULL"}

InitPass ==
    /\ c \in PassConstraints
    /\ built = "IpLoop"
    /\ lkappa = <<>>
    /\ gkappa = QValues(1, 1)
    /\ outputs = IpLoop(GradientDamage(c))
    /\ n = 0
    /\ ret = None
    /\ emax = <<>>
    /\ call = [op |-> "new"]
    /\ store = QValuesDefault
    /\ aborted = FALSE
    /\ pass = [kind |-> "idle"]

PassFrame == UNCHANGED <<c, built, lkappa, ret, emax, store, aborted>>

PassResize(nn) ==
    /\ pass.kind = "idle"
    /\ \E r \in {IpLoop_resize(gkappa, outputs, nn)} :
           n' = r.n /\ outputs' = r.out /\ gkappa' = r.kappa
    /\ call' = [op |-> "IpLoop::resize"]
    /\ UNCHANGED pass
    /\ PassFrame

\* a call of IpLoop::evaluate or IpLoop::update starts: no point processed yet
PassBegin(kind, all_strains, all_neeq) ==
    /\ pass.kind = "idle"
    /\ pass' = [kind |-> kind, todo |-> Points(n), order |-> <<>>,
                all_strains |-> all_strains, all_neeq |-> all_neeq,
                kappa0 |-> gkappa, out0 |-> outputs]
    /\ call' = [op |-> "IpLoop::" \o kind]
    /\ UNCHANGED <<gkappa, outputs, n>>
    /\ PassFrame

\* the body of the loop of IpLoop::evaluate for one point
PassEvaluateStep(i) ==
    /\ pass.kind = "evaluate" /\ i \in pass.todo
    /\ \E r \in {GradientDamage_evaluate(GradientDamage(c), gkappa, outputs,
                     Segment(pass.all_strains, i * DimQ(c), DimQ(c)), pass.all_neeq[i + 1], i)} :
           gkappa' = r.kappa /\ outputs' = r.out
    /\ pass' = [pass EXCEPT !.todo = @ \ {i}, !.order = Append(@, i)]
    /\ UNCHANGED <<call, n>>
    /\ PassFrame

\* the body of the loop of IpLoop::update for one point
PassUpdateStep(i) ==
    /\ pass.kind = "update" /\ i \in pass.todo
    /\ gkappa' = GradientDamage_update(gkappa, Segment(pass.all_strains, i * DimQ(c), DimQ(c)),
                                       pass.all_neeq[i + 1], i)
    /\ pass' = [pass EXCEPT !.todo = @ \ {i}, !.order = Append(@, i)]
    /\ UNCHANGED <<call, outputs, n>>
    /\ PassFrame

\* the call returns
PassEnd ==
    /\ pass.kind # "idle" /\ pass.todo = {}
    /\ pass' = [kind |-> "idle"]
    /\ UNCHANGED <<call, gkappa, outputs, n>>
    /\ PassFrame

NextPass ==
    \/ \E nn \in 0..MaxN : PassResize(nn)
    \/ \E kind \in {"evaluate", "update"}, all_strains \in AllStrains(n, DimQ(c)), all_neeq \in AllNeeq(n) :
           PassBegin(kind, all_strains, all_neeq)
    \/ \E i \in Points(MaxN) : PassEvaluateStep(i)
    \/ \E i \in Points(MaxN) : PassUpdateStep(i)
    \/ PassEnd

SpecPass == InitPass /\ [][NextPass]_vars

\* the strain window and the nonlocal value of point i in the running pass
PassStrain(i) == Segment(pass.all_strains, i * DimQ(c), DimQ(c))

PassNeeq(i) == pass.all_neeq[i + 1]

\* C6: in a batch pass each point's step depends on its own inputs only and
\* writes only slot i of the history (update) or block i of each output
\* (evaluate); each point is processed exactly once; and any processing order
\* ends in the state the sequential loop i = 0..n-1 produces
C6_PointsIndependent ==
    pass.kind # "idle" =>
        LET g == GradientDamage(c)
            done == Points(n) \ pass.todo
        IN  /\ Len(pass.order) = Cardinality(done)
            /\ \A i \in done : Cardinality({p \in DOMAIN pass.order : pass.order[p] = i}) = 1
            /\ \A i \in pass.todo :
                   /\ gkappa.data[i + 1] = pass.kappa0.data[i + 1]
                   /\ \A w \in DOMAIN outputs : QValues_Get(outputs[w], i) = QValues_Get(pass.out0[w], i)
            /\ pass.kind = "update" =>
                   /\ outputs = pass.out0
                   /\ \A i \in done :
                          gkappa.data[i + 1] =
                              GradientDamage_update(pass.kappa0, PassStrain(i), PassNeeq(i), i).data[i + 1]
                   /\ pass.todo = {} =>
                          gkappa = IpLoop_update(g, pass.kappa0, n, pass.all_strains, pass.all_neeq)
            /\ pass.kind = "evaluate" =>
                   /\ gkappa = pass.kappa0
                   /\ \A i \in done : \A w \in DOMAIN outputs :
                          QValues_Get(outputs[w], i) =
                              QValues_Get(GradientDamage_evaluate(g, pass.kappa0, pass.out0,
                                              PassStrain(i), PassNeeq(i), i).out[w], i)
                   /\ pass.todo = {} =>
                          outputs = IpLoop_evaluate(g, pass.kappa0, pass.out0, n,
                                                    pass.all_strains, pass.all_neeq).out

\* C6 witness: an update pass over MaxN points has run in descending order and
\* has raised the history of the first and of the last point
C6_Witness ==
    /\ pass.kind = "update" /\ pass.todo = {} /\ n = MaxN
    /\ pass.order = [p \in 1..MaxN |-> MaxN - p]
    /\ gkappa.data[1] > pass.kappa0.data[1]
    /\ gkappa.data[MaxN] > pass.kappa0.data[MaxN]
    /\ gkappa.data[1] # gkappa.data[MaxN]

====
